---- MODULE Spec2Model ----
(***************************************************************************)
(* Ring lifecycle and breach detection of src/main.py (function main and   *)
(* the classes it uses).                                                   *)
(*                                                                         *)
(* Units.  Time is counted in ticks of dt (main.py:273), so Dt = 1 and a   *)
(* particle lifetime of 1.0 s is 60 ticks.  Angles are counted in units of *)
(* 2*pi/TwoPi radians.  A ball position is kept in polar form around the   *)
(* common center: rho is radial.length (main.py:300), theta is             *)
(* atan2(dy, dx) mod 2*pi (main.py:334).  A ball velocity is kept in the   *)
(* ball's radial frame, in tenths of a length unit per second:             *)
(* vel = <<radial part, tangential part>>, so that                         *)
(* velocity.dot(radial) = rho * vel[1].  Floating-point rounding is not    *)
(* modelled.  The physics engine, the renderer and the audio layer are     *)
(* external: the engine's step is a nondeterministic choice of every       *)
(* ball's next position and velocity.  The hit counter and the sounds are  *)
(* not modelled.                                                           *)
(***************************************************************************)
EXTENDS Integers, Sequences, FiniteSets, TLC

VARIABLES
    args,                 \* the parameters of main (main.py:148-150)
    pc,                   \* position in main's loop
    running,              \* main.py:277
    game_won,             \* main.py:383/386; "unbound" until assigned
    time_left,            \* main.py:272
    balls,                \* main.py:212, the list shared with the callback
    circles,              \* main.py:258, indexed 0..num_arcs-1
    active_circle_index,  \* main.py:269
    particles,            \* main.py:270
    probe                 \* a call of angle_in_range made on its own: its
                          \* arguments and, once it has returned, its result

vars == <<args, pc, running, game_won, time_left, balls, circles,
          active_circle_index, particles, probe>>

\* ------------------------------------------------------------------ bounds
\* Largest countdown, in ticks, the model starts from.
MaxTicks == 3
\* Largest --initial_balls the tick loop is explored with.
MaxInitialBalls == 2
\* How far below 0 and above 2*pi the arguments of angle_in_range reach.
AngleSpan == 3

\* ------------------------------------------------------- program constants
TwoPi == 10              \* 2*math.pi, in angle units
Dt == 1                  \* dt = 1/60 s, the unit of time
ParticleLifetime == 60   \* lifetime=1.0 s, in ticks
MaxBallCount == 100      \* len(data["balls"]) < 100
WinMargin == 100         \* arcs_left < -100
BoostNum == 11           \* velocity * 1.1 ...
BoostDen == 10           \* ... as 11/10

Min(a, b) == IF a < b THEN a ELSE b

\* ------------------------------------------------------------ configuration
base_radius_val == args.ball_radius * args.base_multiplier
radius_increment == args.ball_radius
NumArcs == args.num_arcs

\* The command lines explored.  countdown is given in ticks.
ArgSets ==
    [num_arcs : {2}, ball_radius : {2}, initial_balls : 1..MaxInitialBalls,
     base_multiplier : {2}, particle_count : {2}, countdown : 0..MaxTicks]

\* The command lines explored for the ball population alone: the smallest
\* population that can collide, and populations around the cap.
PopulationArgSets ==
    [num_arcs : {2}, ball_radius : {2},
     initial_balls : {2, MaxBallCount - 1, MaxBallCount, MaxBallCount + 1},
     base_multiplier : {2}, particle_count : {2}, countdown : {MaxTicks}]

\* ---------------------------------------------------------------- geometry
\* No call of angle_in_range is being followed on its own.
NoProbe == [called |-> FALSE]

\* Mutant: the non-wrapping case joined with "or" instead of a chained comparison.
angle_in_range_Or(angle, start, end) ==
    LET a == angle % TwoPi
        s == start % TwoPi
        e == end % TwoPi
    IN  IF s < e THEN s <= a \/ a <= e
                 ELSE a >= s \/ a <= e

\* Mutant: the boundaries compared strictly.
angle_in_range_Strict(angle, start, end) ==
    LET a == angle % TwoPi
        s == start % TwoPi
        e == end % TwoPi
    IN  IF s < e THEN s < a /\ a < e
                 ELSE a > s \/ a < e

angle_in_range(angle, start, end) ==
    LET a == angle % TwoPi
        s == start % TwoPi
        e == end % TwoPi
    IN  IF s < e THEN s <= a /\ a <= e
                 ELSE a >= s \/ a <= e

\* ------------------------------------------------------------------- rings
\* remove_calls counts the calls of remove on the ring (a history field).
RotatingArcCircle(radius, arc_start, arc_length, angular_velocity) ==
    [radius |-> radius, arc_start |-> arc_start, arc_length |-> arc_length,
     angular_velocity |-> angular_velocity, angle |-> 0, active |-> TRUE,
     remove_calls |-> 0]

\* Mutant: remove takes the segments out and forgets the flag.
remove_KeepsActive(c) == [c EXCEPT !.remove_calls = @ + 1]

remove(c) == [c EXCEPT !.active = FALSE, !.remove_calls = @ + 1]

\* Mutant: the gap of the unrotated ring.
get_gap_angles_Unrotated(c) ==
    <<(c.arc_start + c.arc_length) % TwoPi, (c.arc_start + TwoPi) % TwoPi>>

get_gap_angles(c) ==
    <<(c.arc_start + c.arc_length + c.angle) % TwoPi,
      (c.arc_start + TwoPi + c.angle) % TwoPi>>

\* arc_fraction in [0.8, 0.9], arc_start in [0, 2*pi), rot_speed of either
\* sign: the draws of random explored for one ring.
ArcChoices ==
    {[arc_start |-> 0, arc_length |-> (8 * TwoPi) \div 10, rot_speed |-> 1],
     [arc_start |-> 4, arc_length |-> (9 * TwoPi) \div 10, rot_speed |-> -1]}

\* ------------------------------------------------------------------- balls
\* theta is atan2(dy, dx), which is 0 at the center.
Ball(rho, theta, vel, radius) ==
    [rho |-> rho, theta |-> IF rho = 0 THEN 0 ELSE theta, vel |-> vel,
     radius |-> radius]

OutwardVel == <<10, 0>>
InwardVel == <<-10, 10>>

\* main.py:215-219: the balls created at setup, evenly spaced on the inner
\* ring's radius; vf[i] is the velocity ball i draws.
CreateBalls(n, vf) ==
    [i \in 1..n |->
        Ball(base_radius_val, (TwoPi * (i - 1)) \div n, vf[i], args.ball_radius)]

RadialLength(b) == b.rho
Dot(b) == b.rho * b.vel[1]
BallAngle(b) == b.theta % TwoPi

\* rho of a ball whose outer edge is off past ring index e's radius; the
\* center when that ring's radius is less than the ball's.
RhoAt(e, off) ==
    IF base_radius_val + e * radius_increment - args.ball_radius + off < 0 THEN 0
    ELSE base_radius_val + e * radius_increment - args.ball_radius + off

\* What the engine's step can leave a ball with: at the center; outer edge
\* exactly on ring 0's radius, moving outward or inward; outer edge between
\* rings 1 and 2; far outside, WinMargin rings past the last one and beyond.
BallStates ==
    {Ball(0, 0, OutwardVel, args.ball_radius),
     Ball(RhoAt(0, 0), 1, OutwardVel, args.ball_radius),
     Ball(RhoAt(0, 0), 1, InwardVel, args.ball_radius),
     Ball(RhoAt(1, 1), 1, OutwardVel, args.ball_radius),
     Ball(RhoAt(NumArcs + WinMargin, 1), 5, OutwardVel, args.ball_radius),
     Ball(RhoAt(NumArcs + WinMargin + 1, 0), 5, OutwardVel, args.ball_radius)}

\* --------------------------------------------------------------- particles
Particle(radius, lifetime) == [radius |-> radius, lifetime |-> lifetime]

\* Mutant: the batch loop stops one particle short.
SpawnParticles_OneShort(ps, c) ==
    ps \o [k \in 1..(args.particle_count - 1) |-> Particle(c.radius, ParticleLifetime)]

SpawnParticles(ps, c) ==
    ps \o [k \in 1..args.particle_count |-> Particle(c.radius, ParticleLifetime)]

\* ------------------------------------------------------ escape-index scan
EscapeIndex(b) ==
    (RadialLength(b) + b.radius - base_radius_val) \div radius_increment

\* Mutant: no guard on the radial length, and the product compared with >=.
MovesOutward_NotInward(b) == Dot(b) >= 0

MovesOutward(b) == RadialLength(b) > 0 /\ Dot(b) > 0

RECURSIVE ScanEscape(_, _, _)
ScanEscape(bs, k, m) ==
    IF k > Len(bs) THEN m
    ELSE ScanEscape(bs, k + 1,
                    IF MovesOutward(bs[k]) /\ EscapeIndex(bs[k]) > m
                    THEN EscapeIndex(bs[k]) ELSE m)

MaxEscapeIndex(bs, idx) == ScanEscape(bs, 1, idx)

\* -------------------------------------------------------- skip-destruction
\* Mutant: the skip loop stops one ring early.
SkipStop_OneShort(mx, n) == Min(mx, n) - 1

SkipStop(mx, n) == Min(mx, n)

\* Mutant: a skipped ring is destroyed only if a ball's angle is in its gap.
SkipVisit_GapOnly(st, i) ==
    IF /\ st.circles[i].active
       /\ \E k \in 1..Len(st.balls) :
             angle_in_range(BallAngle(st.balls[k]), get_gap_angles(st.circles[i])[1],
                            get_gap_angles(st.circles[i])[2])
    THEN [st EXCEPT !.circles[i] = remove(@),
                    !.particles = SpawnParticles(@, st.circles[i])]
    ELSE st

SkipVisit(st, i) ==
    IF st.circles[i].active
    THEN [st EXCEPT !.circles[i] = remove(@),
                    !.particles = SpawnParticles(@, st.circles[i])]
    ELSE st

RECURSIVE SkipLoop(_, _, _)
SkipLoop(i, stop, st) ==
    IF i >= stop THEN st ELSE SkipLoop(i + 1, stop, SkipVisit(st, i))

\* Mutants: the new active index clamped to the ring count; one too far;
\* set to the loop variable's last value, the last index the loop covers.
SkipIndex_Clamped(mx, n) == Min(mx, n)
SkipIndex_OffByOne(mx, n) == mx + 1
SkipIndex_LastVisited(mx, n) == Min(mx, n) - 1

SkipIndex(mx, n) == mx

SkipPath(st, mx) ==
    [SkipLoop(st.index, SkipStop(mx, NumArcs), st) EXCEPT !.index = SkipIndex(mx, NumArcs)]

\* ------------------------------------------------------------ precise path
\* Mutant: the breach test without the angle test.
Breaches_NoAngle(b, c) ==
    /\ (RadialLength(b) + b.radius) >= c.radius
    /\ Dot(b) > 0

Breaches(b, c) ==
    /\ (RadialLength(b) + b.radius) >= c.radius
    /\ Dot(b) > 0
    /\ angle_in_range(BallAngle(b), get_gap_angles(c)[1], get_gap_angles(c)[2])

SpeedUp(bs) ==
    [k \in 1..Len(bs) |->
        [bs[k] EXCEPT !.vel = <<(@[1] * BoostNum) \div BoostDen,
                                (@[2] * BoostNum) \div BoostDen>>]]

\* Mutant: the breach branch without its break.
BreachFires_NoBreak(st, ci) ==
    [st EXCEPT !.circles[ci] = remove(@),
               !.particles = SpawnParticles(@, st.circles[ci]),
               !.index = @ + 1,
               !.balls = SpeedUp(@)]

\* The body of the breach branch, main.py:337-354; broke is the break.
BreachFires(st, ci) ==
    [st EXCEPT !.circles[ci] = remove(@),
               !.particles = SpawnParticles(@, st.circles[ci]),
               !.index = @ + 1,
               !.balls = SpeedUp(@),
               !.broke = TRUE]

RECURSIVE BreachLoop(_, _, _)
BreachLoop(k, ci, st) ==
    IF k > Len(st.balls) \/ st.broke THEN st
    ELSE BreachLoop(k + 1, ci,
                    IF Breaches(st.balls[k], st.circles[ci])
                    THEN BreachFires(st, ci) ELSE st)

PrecisePath(st) ==
    IF st.index < NumArcs
    THEN IF st.circles[st.index].active THEN BreachLoop(1, st.index, st) ELSE st
    ELSE st

RingManager(st) ==
    LET mx == MaxEscapeIndex(st.balls, st.index)
    IN  IF mx > st.index THEN SkipPath(st, mx) ELSE PrecisePath(st)

RingState ==
    [circles |-> circles, particles |-> particles, index |-> active_circle_index,
     balls |-> balls, broke |-> FALSE]

\* ------------------------------------------------------------------- state
Init ==
    /\ args \in ArgSets
    /\ pc = "events"
    /\ running = TRUE
    /\ game_won = "unbound"
    /\ time_left = args.countdown
    /\ \E vf \in [1..args.initial_balls -> {OutwardVel, InwardVel}] :
          balls = CreateBalls(args.initial_balls, vf)
    /\ \E ch \in [0..(NumArcs - 1) -> ArcChoices] :
          circles = [i \in 0..(NumArcs - 1) |->
                        RotatingArcCircle(base_radius_val + i * radius_increment,
                                          ch[i].arc_start, ch[i].arc_length,
                                          ch[i].rot_speed)]
    /\ active_circle_index = 0
    /\ particles = <<>>
    /\ probe = NoProbe

\* main.py:283
Countdown(t) == t - Dt

\* main.py:279-283: drain the events (a quit may be among them), count down.
HandleEvents ==
    /\ pc = "events"
    /\ \E quit \in BOOLEAN : running' = (running /\ ~quit)
    /\ time_left' = Countdown(time_left)
    /\ pc' = "physics"
    /\ UNCHANGED <<probe, args, game_won, balls, circles, active_circle_index, particles>>

\* main.py:222-250, called by the engine during space.step for a begin of
\* contact of two balls.
R_enclosing ==
    IF active_circle_index < NumArcs
    THEN circles[active_circle_index].radius
    ELSE base_radius_val + (NumArcs - 1) * args.ball_radius

ball_ball_collision(candidate) ==
    IF Len(balls) < MaxBallCount
    THEN balls' = Append(balls, candidate)
    ELSE balls' = balls

\* The spawn point drawn in main.py:239-247, at the enclosing radius.
Candidates == {Ball(R_enclosing, 0, OutwardVel, args.ball_radius)}

BallBallCollision ==
    /\ pc = "physics"
    /\ Len(balls) >= 2
    /\ \E c \in Candidates : ball_ball_collision(c)
    /\ UNCHANGED <<probe, args, pc, running, game_won, time_left, circles,
                   active_circle_index, particles>>

\* main.py:286-292: the impulses and the engine's step.  Every ball gets the
\* position and velocity the engine computes; every ring's body turns.
SpaceStep ==
    /\ pc = "physics"
    /\ balls' \in [1..Len(balls) -> BallStates]
    /\ circles' = [i \in DOMAIN circles |->
                      [circles[i] EXCEPT !.angle = @ + circles[i].angular_velocity * Dt]]
    /\ pc' = "rings"
    /\ UNCHANGED <<probe, args, running, game_won, time_left, active_circle_index, particles>>

\* main.py:294-354
BreachDetection ==
    /\ pc = "rings"
    /\ LET r == RingManager(RingState)
       IN  /\ circles' = r.circles
           /\ particles' = r.particles
           /\ active_circle_index' = r.index
           /\ balls' = r.balls
    /\ pc' = "particles"
    /\ UNCHANGED <<probe, args, running, game_won, time_left>>

\* main.py:139-141
update(p) == [p EXCEPT !.lifetime = @ - Dt]

\* Mutant: the filter keeps a particle whose lifetime has just run out.
Alive_OrZero(p) == p.lifetime >= 0

\* main.py:358, the filter's condition
Alive(p) == p.lifetime > 0

\* main.py:356-358
UpdateParticles ==
    /\ pc = "particles"
    /\ particles' = SelectSeq([k \in 1..Len(particles) |-> update(particles[k])], Alive)
    /\ pc' = "check"
    /\ UNCHANGED <<probe, args, running, game_won, time_left, balls, circles,
                   active_circle_index>>

\* main.py:370 and 381-386, then the loop test of main.py:278.
arcs_left == NumArcs - active_circle_index

\* Mutant: the margin compared with <=.
WonCondition_AtMargin == active_circle_index >= NumArcs /\ arcs_left <= -WinMargin

\* Mutant: the countdown compared with <.
LostCondition_Strict == time_left < 0

WonCondition == active_circle_index >= NumArcs /\ arcs_left < -WinMargin
LostCondition == time_left <= 0

MatchCheck ==
    /\ pc = "check"
    /\ IF WonCondition
       THEN running' = FALSE /\ game_won' = "True"
       ELSE IF LostCondition
            THEN running' = FALSE /\ game_won' = "False"
            ELSE UNCHANGED <<running, game_won>>
    /\ pc' = IF running' THEN "events" ELSE "end"
    /\ UNCHANGED <<probe, args, time_left, balls, circles, active_circle_index, particles>>

\* main.py:388-406: the end display reads game_won.
EndDisplay ==
    /\ pc = "end"
    /\ pc' = IF game_won = "unbound" THEN "UnboundLocalError" ELSE "exit"
    /\ UNCHANGED <<probe, args, running, game_won, time_left, balls, circles,
                   active_circle_index, particles>>

Next ==
    \/ HandleEvents
    \/ SpaceStep
    \/ BreachDetection
    \/ UpdateParticles
    \/ MatchCheck
    \/ EndDisplay

Spec == Init /\ [][Next]_vars

\* The interpreter always runs the next statement: a run never stops halfway
\* through a tick.
SpecFair == Spec /\ WF_vars(Next)

\* The ball population alone: the engine's step of the first tick, in which
\* any number of ball-ball contacts begin.  The tick loop above is explored
\* with the populations setup creates; this specification follows the
\* population up to the cap and past it.
InitBalls ==
    /\ args \in PopulationArgSets
    /\ pc = "physics"
    /\ running = TRUE
    /\ game_won = "unbound"
    /\ time_left = args.countdown - Dt
    /\ balls = CreateBalls(args.initial_balls, [i \in 1..args.initial_balls |-> OutwardVel])
    /\ circles = [i \in 0..(NumArcs - 1) |->
                    RotatingArcCircle(base_radius_val + i * radius_increment,
                                      0, (8 * TwoPi) \div 10, 1)]
    /\ active_circle_index = 0
    /\ particles = <<>>
    /\ probe = NoProbe

NextBalls == BallBallCollision

SpecBalls == InitBalls /\ [][NextBalls]_vars

\* Late in a run: the loop head after `elapsed` ticks, in the first of which
\* a ball past ring 0 made the skip path destroy ring 0 alone.  The batch of
\* particles spawned then has one or two ticks left to live; the balls are
\* back at the center.
LateArgSets ==
    [num_arcs : {2}, ball_radius : {2}, initial_balls : {1},
     base_multiplier : {2}, particle_count : {2},
     countdown : ParticleLifetime..(ParticleLifetime + MaxTicks - 1)]

InitLate ==
    /\ args \in LateArgSets
    /\ pc = "events"
    /\ running = TRUE
    /\ game_won = "unbound"
    /\ active_circle_index = 1
    /\ balls = [k \in 1..args.initial_balls |-> Ball(0, 0, OutwardVel, args.ball_radius)]
    /\ probe = NoProbe
    /\ \E elapsed \in {ParticleLifetime - 2, ParticleLifetime - 1} :
          /\ time_left = args.countdown - elapsed * Dt
          /\ particles = [k \in 1..args.particle_count |->
                             Particle(base_radius_val, ParticleLifetime - elapsed * Dt)]
          /\ \E ch \in [0..(NumArcs - 1) -> ArcChoices] :
                circles = [i \in 0..(NumArcs - 1) |->
                    LET c == [RotatingArcCircle(base_radius_val + i * radius_increment,
                                                ch[i].arc_start, ch[i].arc_length,
                                                ch[i].rot_speed)
                                 EXCEPT !.angle = ch[i].rot_speed * elapsed * Dt]
                    IN  IF i = 0 THEN remove(c) ELSE c]

SpecLate == InitLate /\ [][Next]_vars

\* Small inner radii: --base_multiplier 0 creates every ball at the common
\* center and gives ring 0 the radius 0; --base_multiplier 1 puts ring 0 at
\* the radius of a ball lying on the center.
CenterArgSets ==
    [num_arcs : {2}, ball_radius : {2}, initial_balls : 1..MaxInitialBalls,
     base_multiplier : {0, 1}, particle_count : {2}, countdown : 0..(MaxTicks - 1)]

InitCenter ==
    /\ args \in CenterArgSets
    /\ pc = "events"
    /\ running = TRUE
    /\ game_won = "unbound"
    /\ time_left = args.countdown
    /\ \E vf \in [1..args.initial_balls -> {OutwardVel, InwardVel}] :
          balls = CreateBalls(args.initial_balls, vf)
    /\ \E ch \in [0..(NumArcs - 1) -> ArcChoices] :
          circles = [i \in 0..(NumArcs - 1) |->
                        RotatingArcCircle(base_radius_val + i * radius_increment,
                                          ch[i].arc_start, ch[i].arc_length,
                                          ch[i].rot_speed)]
    /\ active_circle_index = 0
    /\ particles = <<>>
    /\ probe = NoProbe

SpecCenter == InitCenter /\ [][Next]_vars

\* angle_in_range on its own: one call with arguments on either side of
\* [0, 2*pi), outside any game.
AngleArgs == (0 - AngleSpan)..(TwoPi + AngleSpan)

InitAngles ==
    /\ args \in {a \in ArgSets : a.initial_balls = 1 /\ a.countdown = 0}
    /\ pc = "call"
    /\ running = FALSE
    /\ game_won = "unbound"
    /\ time_left = 0
    /\ balls = <<>>
    /\ circles = <<>>
    /\ active_circle_index = 0
    /\ particles = <<>>
    /\ \E angle \in AngleArgs, start \in AngleArgs, end \in AngleArgs :
          probe = [called |-> TRUE, angle |-> angle, start |-> start, end |-> end,
                   returned |-> FALSE]

AngleInRangeCall ==
    /\ pc = "call"
    /\ probe' = [called |-> TRUE, angle |-> probe.angle, start |-> probe.start,
                 end |-> probe.end, returned |-> TRUE,
                 result |-> angle_in_range(probe.angle, probe.start, probe.end)]
    /\ pc' = "return"
    /\ UNCHANGED <<args, running, game_won, time_left, balls, circles,
                   active_circle_index, particles>>

NextAngles == AngleInRangeCall

SpecAngles == InitAngles /\ [][NextAngles]_vars

\* ===================================================================== claims
\* The escape-index scan's result for the tick about to run breach detection.
max_escape_index == MaxEscapeIndex(balls, active_circle_index)

SkipTick == pc = "rings" /\ max_escape_index > active_circle_index
NoSkipTick == pc = "rings" /\ max_escape_index <= active_circle_index

Destroyed == {i \in DOMAIN circles : circles[i].active /\ ~circles'[i].active}

\* a lies in the closed circular interval from s to e (s # e modulo TwoPi).
InClosedGap(a, s, e) ==
    \E d \in 0..((e - s) % TwoPi) : (s + d) % TwoPi = a % TwoPi

\* a lies in the open circular interval from s to e.
InOpenGap(a, s, e) ==
    \E d \in 1..(((e - s) % TwoPi) - 1) : (s + d) % TwoPi = a % TwoPi

GapStart(c) == (c.arc_start + c.arc_length + c.angle) % TwoPi
GapEnd(c) == (c.arc_start + c.angle) % TwoPi

\* Ball b has its outer edge at or beyond ring c's radius and moves outward.
Reaches(b, c) == b.rho + b.radius >= c.radius /\ b.rho * b.vel[1] > 0

\* C1: in a tick whose maximum escape index exceeds the active index, every
\* still-active ring with index in [activeIndex, min(maxEscapeIndex, N)) is
\* destroyed in that tick, whether or not a ball's angle lies in its gap.
C1_SkipDestroysEveryRing ==
    [][SkipTick =>
        \A i \in DOMAIN circles :
            (/\ active_circle_index <= i
             /\ i < Min(max_escape_index, NumArcs)
             /\ circles[i].active)
            => (~circles'[i].active /\ circles'[i].remove_calls = circles[i].remove_calls + 1)]_vars

\* A skip tick has just destroyed both rings and no ball's angle lies in the
\* gap of either of them.
C1_Witness ==
    /\ pc = "particles"
    /\ \A i \in DOMAIN circles : ~circles[i].active
    /\ Len(particles) = NumArcs * args.particle_count
    /\ \A k \in 1..Len(particles) : particles[k].lifetime = ParticleLifetime
    /\ \A i \in DOMAIN circles : \A k \in 1..Len(balls) :
          ~InClosedGap(balls[k].theta, GapStart(circles[i]), GapEnd(circles[i]))

\* C2: after a skip-destruction tick the active index equals that tick's
\* maximum escape index, also when that exceeds the ring count.
C2_SkipSetsIndex ==
    [][SkipTick => active_circle_index' = max_escape_index]_vars

\* A skip tick has just left the active index beyond the ring count, at the
\* escape index of a ball.
C2_Witness ==
    /\ pc = "particles"
    /\ active_circle_index > NumArcs
    /\ \E k \in 1..Len(balls) :
          active_circle_index = (balls[k].rho + balls[k].radius - base_radius_val) \div radius_increment

\* Some ball breaches the active ring under the precise test.
BreachFired ==
    /\ active_circle_index < NumArcs
    /\ circles[active_circle_index].active
    /\ \E k \in 1..Len(balls) :
          /\ Reaches(balls[k], circles[active_circle_index])
          /\ InClosedGap(balls[k].theta, GapStart(circles[active_circle_index]),
                         GapEnd(circles[active_circle_index]))

\* C3: in a tick that does not take the skip path at most one ring is
\* destroyed, it is the ring at the active index, the active index grows by
\* one if a breach fires and by zero otherwise, and the effects of a breach
\* happen once however many balls breach.
C3_PreciseAtMostOne ==
    [][NoSkipTick =>
        /\ Destroyed \subseteq {active_circle_index}
        /\ BreachFired =>
              /\ active_circle_index' = active_circle_index + 1
              /\ Destroyed = {active_circle_index}
              /\ circles'[active_circle_index].remove_calls = 1
              /\ Len(particles') = Len(particles) + args.particle_count
        /\ ~BreachFired =>
              /\ active_circle_index' = active_circle_index
              /\ Destroyed = {}
              /\ particles' = particles]_vars

\* A precise breach has just destroyed ring 0 in a tick in which two balls
\* were both at the ring, moving outward, inside its gap.
C3_Witness ==
    /\ pc = "particles"
    /\ active_circle_index = 1
    /\ ~circles[0].active /\ circles[1].active
    /\ Len(balls) >= 2
    /\ \A k \in 1..2 :
          /\ Reaches(balls[k], circles[0])
          /\ InClosedGap(balls[k].theta, GapStart(circles[0]), GapEnd(circles[0]))

\* C4 as stated: the ring at the active index is destroyed by the precise
\* test only when a ball at the ring, moving outward, has its angle strictly
\* inside the gap (not on a boundary).
C4_Original_StrictlyInside ==
    [][(NoSkipTick /\ Destroyed # {}) =>
        \E k \in 1..Len(balls) :
            /\ Reaches(balls[k], circles[active_circle_index])
            /\ InOpenGap(balls[k].theta, GapStart(circles[active_circle_index]),
                         GapEnd(circles[active_circle_index]))]_vars

\* C4 amended: the ring at the active index is destroyed by the precise test
\* only when a ball at the ring, moving outward, has its angle in the closed
\* gap interval, boundaries included; with no such ball nothing is destroyed.
C4_ClosedGapBreach ==
    [][(NoSkipTick /\ Destroyed # {}) =>
        \E k \in 1..Len(balls) :
            /\ Reaches(balls[k], circles[active_circle_index])
            /\ InClosedGap(balls[k].theta, GapStart(circles[active_circle_index]),
                           GapEnd(circles[active_circle_index]))]_vars

\* A precise breach has just destroyed ring 0 and every ball that was at the
\* ring moving outward had its angle on a boundary of the gap.
C4_Witness ==
    /\ pc = "particles"
    /\ active_circle_index = 1
    /\ ~circles[0].active /\ circles[1].active
    /\ \E k \in 1..Len(balls) :
          /\ Reaches(balls[k], circles[0])
          /\ balls[k].theta % TwoPi \in {GapStart(circles[0]), GapEnd(circles[0])}
    /\ \A k \in 1..Len(balls) :
          ~InOpenGap(balls[k].theta, GapStart(circles[0]), GapEnd(circles[0]))

\* C5: the match becomes Won only at a match check at which
\* activeIndex - N > 100; a match check with activeIndex = N, time remaining
\* and no quit leaves the match running.
C5_WonOnlyBeyondMargin ==
    [][/\ (game_won' = "True" /\ game_won # "True") =>
            (pc = "check" /\ active_circle_index - NumArcs > WinMargin)
       /\ (pc = "check" /\ active_circle_index = NumArcs /\ time_left > 0 /\ running) =>
            (running' /\ game_won' = game_won /\ pc' = "events")]_vars

\* The match is Won.
C5_Witness ==
    /\ game_won = "True"
    /\ ~running
    /\ time_left > 0

\* C6: a tick at whose end timeLeft <= 0 ends in Lost, also when the Won
\* condition holds in it.
C6_LostWhenTimeUp ==
    (pc = "end" /\ time_left <= 0) => game_won = "False"

\* C7: the number of balls is at most 100 in every reachable state.
C7_AtMost100Balls ==
    Len(balls) <= MaxBallCount

\* C8 as stated: 0 <= activeIndex <= N in every reachable state.
C8_Original_WithinRingCount ==
    0 <= active_circle_index /\ active_circle_index <= NumArcs

\* C8 amended: the active index is never negative, and a tick leaves it
\* above N only unchanged or as that skip tick's maximum escape index.
C8_IndexBounds ==
    [][/\ (active_circle_index >= 0 => active_circle_index' >= 0)
       /\ (active_circle_index' > NumArcs /\ active_circle_index' # active_circle_index) =>
            (SkipTick /\ active_circle_index' = max_escape_index)]_vars

\* The active index is above the ring count while the match is running.
C8_Witness ==
    /\ active_circle_index > NumArcs
    /\ running
    /\ pc = "events"

\* C9: no step lowers the active index.
C9_IndexMonotone ==
    [][active_circle_index' >= active_circle_index]_vars

\* The active index has advanced in two ticks: ring 0's particles are older
\* than ring 1's.
C9_Witness ==
    /\ active_circle_index >= NumArcs
    /\ \E j, k \in 1..Len(particles) :
          /\ particles[j].radius = circles[0].radius
          /\ particles[k].radius = circles[1].radius
          /\ particles[j].lifetime < particles[k].lifetime

\* C10: a ring's active flag only changes from true to false, remove is
\* called on a ring at most once, and only on a ring that is active.
C10_DestroyedOnce ==
    [][\A i \in DOMAIN circles :
          /\ circles'[i].active => circles[i].active
          /\ circles'[i].remove_calls <= 1
          /\ circles'[i].active <=> circles'[i].remove_calls = 0
          /\ circles'[i].remove_calls # circles[i].remove_calls => circles[i].active]_vars

\* Ring 0 was destroyed in one tick and ring 1, a tick later, by a skip that
\* started at index 1; remove was called once on each.
C10_Witness ==
    /\ pc = "particles"
    /\ active_circle_index > NumArcs
    /\ \A i \in DOMAIN circles : ~circles[i].active /\ circles[i].remove_calls = 1
    /\ Len(particles) = NumArcs * args.particle_count
    /\ particles[1].lifetime = ParticleLifetime - Dt
    /\ particles[Len(particles)].lifetime = ParticleLifetime

\* The particles the tick's breach detection appends.
NewParticles == (Len(particles) + 1)..Len(particles')

\* C11: every ring destruction, on either path, creates exactly
\* particle_count particles at the ring's radius, so a tick creates
\* particle_count times the number of rings it destroys.
C11_ParticlesPerDestruction ==
    [][pc = "rings" =>
        /\ Len(particles') = Len(particles) + args.particle_count * Cardinality(Destroyed)
        /\ SubSeq(particles', 1, Len(particles)) = particles
        /\ \A i \in Destroyed :
              Cardinality({k \in NewParticles : particles'[k].radius = circles[i].radius})
                  = args.particle_count
        /\ \A k \in NewParticles : particles'[k].lifetime = ParticleLifetime]_vars

\* Ring 0 was destroyed a tick ago and a precise breach (the balls are sped
\* up) has just destroyed ring 1: one batch of each age.
C11_Witness ==
    /\ pc = "particles"
    /\ active_circle_index = NumArcs
    /\ \E k \in 1..Len(balls) : balls[k].vel[1] = (OutwardVel[1] * BoostNum) \div BoostDen
    /\ Len(particles) = NumArcs * args.particle_count
    /\ \A k \in 1..args.particle_count :
          /\ particles[k] = Particle(circles[0].radius, ParticleLifetime - Dt)
          /\ particles[args.particle_count + k] = Particle(circles[1].radius, ParticleLifetime)

OutlivesTick(p) == p.lifetime > Dt

\* C12: the particle update pass keeps exactly the particles whose lifetime
\* exceeded dt, in order and with lifetime reduced by dt, and leaves no
\* particle with lifetime <= 0 in the live list.
C12_ParticleExpiry ==
    [][pc = "particles" =>
        /\ Len(particles') = Len(SelectSeq(particles, OutlivesTick))
        /\ \A k \in 1..Len(particles') :
              /\ particles'[k] = [SelectSeq(particles, OutlivesTick)[k]
                                     EXCEPT !.lifetime = @ - Dt]
              /\ particles'[k].lifetime > 0]_vars

\* Ring 0's batch has just expired (its lifetime was exactly dt) while the
\* younger batch of ring 1, destroyed the tick before, lives on.
C12_Witness ==
    /\ pc = "check"
    /\ circles[0].remove_calls = 1
    /\ circles[1].remove_calls = 1
    /\ Len(particles) = args.particle_count
    /\ \A k \in 1..Len(particles) :
          particles[k] = Particle(circles[1].radius, ParticleLifetime - 2 * Dt)

\* C13: in every tick that destroys the ring at the active index, by a
\* precise breach or by the skip path, every ball's velocity is multiplied by
\* 1.1 exactly once; in a tick that destroys no ring, velocities are unchanged.
C13_BoostOnEveryDestruction ==
    [][pc = "rings" =>
        IF active_circle_index \in Destroyed
        THEN balls' = SpeedUp(balls)
        ELSE balls' = balls]_vars

LoopExited == pc \in {"end", "exit", "UnboundLocalError"}

\* C14: every run of the loop terminates.  time_left falls by dt in every
\* tick, and a tick at whose end time_left <= 0 ends the loop in Won or Lost,
\* whatever the balls and rings do; so the loop is eventually left.
C14_LoopTerminates ==
    /\ [][pc = "events" => time_left' = time_left - Dt]_vars
    /\ [][pc = "check" /\ time_left <= 0 =>
            /\ ~running'
            /\ game_won' \in {"True", "False"}
            /\ LoopExited']_vars
    /\ <>LoopExited

\* The countdown has run out at the end of a tick that saw no quit and no
\* win, and the loop has stopped in Lost.
C14_Witness ==
    /\ pc = "end"
    /\ args.countdown = MaxTicks
    /\ time_left = 0
    /\ game_won = "False"

\* x brought into 0..TwoPi-1 by adding or taking away whole turns.
RECURSIVE Reduced(_)
Reduced(x) ==
    IF x < 0 THEN Reduced(x + TwoPi)
    ELSE IF x >= TwoPi THEN Reduced(x - TwoPi)
    ELSE x

ProbeReturned == probe.called /\ probe.returned

\* C15: angle_in_range is inclusive at both ends.  With the three values
\* reduced modulo 2*pi it is true for angle = start and for angle = end; for
\* start < end it is start <= angle <= end, and for start >= end (the
\* interval wraps through 0) it is angle >= start or angle <= end.
C15_InclusiveRange ==
    ProbeReturned =>
        LET a == Reduced(probe.angle)
            s == Reduced(probe.start)
            e == Reduced(probe.end)
        IN  /\ (a = s \/ a = e) => probe.result
            /\ s < e => (probe.result <=> a \in s..e)
            /\ s >= e => (probe.result <=> a \in (s..(TwoPi - 1)) \cup (0..e))

\* A call that returned true for an angle one turn below the start of an
\* interval that wraps through 0.
C15_Witness ==
    /\ ProbeReturned
    /\ probe.result
    /\ probe.angle = probe.start - TwoPi
    /\ Reduced(probe.start) > Reduced(probe.end)
    /\ probe.end > TwoPi

\* C16: get_gap_angles returns ((arc_start + arc_length + angle) mod 2*pi,
\* (arc_start + 2*pi + angle) mod 2*pi) for the ring's current rotation, so a
\* tick's rotation by angular_velocity * dt shifts both boundaries by that
\* amount modulo 2*pi and leaves the gap's extent at 2*pi - arc_length.
C16_GapFollowsRotation ==
    [][pc = "physics" =>
        \A i \in DOMAIN circles :
            LET c == circles[i]
                d == circles'[i]
                shift == c.angular_velocity * Dt
            IN  /\ d.angle = c.angle + shift
                /\ get_gap_angles(d)
                     = <<Reduced(d.arc_start + d.arc_length + d.angle),
                         Reduced(d.arc_start + TwoPi + d.angle)>>
                /\ get_gap_angles(d)[1] = Reduced(get_gap_angles(c)[1] + shift)
                /\ get_gap_angles(d)[2] = Reduced(get_gap_angles(c)[2] + shift)
                /\ Reduced(get_gap_angles(d)[2] - get_gap_angles(d)[1])
                     = TwoPi - d.arc_length]_vars

\* After the engine's step one ring has turned forward and its gap now wraps
\* through 0, while another has turned backward.
C16_Witness ==
    /\ pc = "rings"
    /\ \E i \in DOMAIN circles :
          /\ circles[i].angle > 0
          /\ get_gap_angles(circles[i])[1] > get_gap_angles(circles[i])[2]
    /\ \E i \in DOMAIN circles : circles[i].angle < 0

\* Some ball has its outer edge at or beyond the active ring's radius, moves
\* outward and has its angle inside that ring's current gap, ends included.
SomeBallThroughGap ==
    /\ active_circle_index \in DOMAIN circles
    /\ \E k \in 1..Len(balls) :
          /\ Reaches(balls[k], circles[active_circle_index])
          /\ InClosedGap(balls[k].theta, GapStart(circles[active_circle_index]),
                         GapEnd(circles[active_circle_index]))

\* C17: a blocked tick changes nothing.  When the skip path is not taken and
\* no ball at or beyond the active ring's radius moves outward with its angle
\* inside the ring's gap, breach detection leaves every ring's active flag,
\* the active index, the particles and every ball's velocity as they were.
C17_BlockedTickNoChange ==
    [][(NoSkipTick /\ ~SomeBallThroughGap) =>
        /\ \A i \in DOMAIN circles : circles'[i].active = circles[i].active
        /\ active_circle_index' = active_circle_index
        /\ particles' = particles
        /\ \A k \in 1..Len(balls) : balls'[k].vel = balls[k].vel]_vars

\* Breach detection has just run with a ball on ring 0's radius, moving
\* outward, its angle on ring 0's solid part: ring 0 stands.
C17_Witness ==
    /\ pc = "particles"
    /\ active_circle_index = 0
    /\ circles[0].active
    /\ particles = <<>>
    /\ MaxEscapeIndex(balls, 0) = 0
    /\ \E k \in 1..Len(balls) :
          /\ Reaches(balls[k], circles[0])
          /\ ~InClosedGap(balls[k].theta, GapStart(circles[0]), GapEnd(circles[0]))
          /\ balls[k].vel = OutwardVel

OffCenter(b) == b.rho > 0

\* The ring manager's input with the balls lying on the center left out.
RingStateOffCenter == [RingState EXCEPT !.balls = SelectSeq(balls, OffCenter)]

\* C18: a ball whose radial vector has zero length counts as not moving
\* outward in the escape-index scan and in the precise breach test: it never
\* raises the maximum escape index and never triggers a destruction, whatever
\* its velocity.  The tick's rings, index and particles are those the ring
\* manager produces without such balls, and nothing changes when every ball
\* lies on the center.
C18_CenterBallIgnored ==
    [][pc = "rings" =>
        /\ max_escape_index = MaxEscapeIndex(SelectSeq(balls, OffCenter), active_circle_index)
        /\ circles' = RingManager(RingStateOffCenter).circles
        /\ active_circle_index' = RingManager(RingStateOffCenter).index
        /\ particles' = RingManager(RingStateOffCenter).particles
        /\ (\A k \in 1..Len(balls) : ~OffCenter(balls[k])) =>
              /\ circles' = circles
              /\ active_circle_index' = active_circle_index
              /\ particles' = particles]_vars

\* Breach detection has just run with every ball on the center, its outer
\* edge on ring 1's radius and past ring 0's, one of them with a velocity
\* that would count as outward anywhere else: both rings stand.
C18_Witness ==
    /\ pc = "particles"
    /\ \A k \in 1..Len(balls) : balls[k].rho = 0
    /\ \E k \in 1..Len(balls) :
          /\ balls[k].vel = OutwardVel
          /\ balls[k].radius >= circles[1].radius
          /\ EscapeIndex(balls[k]) = 1
    /\ active_circle_index = 0
    /\ \A i \in DOMAIN circles : circles[i].active
    /\ particles = <<>>

\* C19: at every tick boundary ring i, 0 <= i < N, is active if and only if
\* i >= the active index: every ring below the index has been destroyed and
\* none at or above it has.
C19_ActiveIffAtOrAboveIndex ==
    \A i \in DOMAIN circles : circles[i].active <=> i >= active_circle_index

\* The head of a tick after ring 0 alone has been destroyed.
C19_Witness ==
    /\ pc = "events"
    /\ active_circle_index = 1
    /\ ~circles[0].active
    /\ circles[1].active

\* C20: whenever the loop exits, a user quit with neither Won nor Lost
\* included, the outcome flag has been assigned before the end display
\* reads it.
C20_OutcomeAssignedAtExit ==
    pc = "end" => game_won \in {"True", "False"}
====
